---- MODULE Spec2Model ----
(***************************************************************************)
(* A model of the statement dashboards of citicredit-dashboard:            *)
(*   - src/uob_statement_dashboard.py (parse_month_end and its helpers),   *)
(*   - pages/2_uob_statement_dashboard.py (the three-method card parser),  *)
(*   - pages/1_citibank_dashboard.py (the pattern chain and the manual     *)
(*     categorisation loop),                                               *)
(*   - utils/mapping.py (load_mapping / save_mapping).                     *)
(* Text is a sequence of one-character strings; a money amount is an       *)
(* integer number of cents.                                                *)
(***************************************************************************)
EXTENDS Integers, Sequences, FiniteSets, TLC

VARIABLES
    \* extract_alphabets applied once and then again to its own result
    ea_pc, ea_fn, ea_desc, ea_info, ea_clean, ea_again,
    \* one run of uob_statement_dashboard.py: the extracted text, the selected
    \* year and the table returned by parse_month_end
    me_pc, me_text, me_year, me_df,
    \* one run of pages/2_uob_statement_dashboard.py: the spans of the document
    \* (its lines, each with its bold flag), the year, the method that supplied
    \* the records, the messages shown, the records, the table, and the table
    \* that is displayed and offered for download
    cc_pc, cc_doc, cc_year, cc_method, cc_info, cc_transactions, cc_df, cc_clean,
    \* pages/1_citibank_dashboard.py: the uploaded text and year, the list and
    \* the last pattern of parse_transactions, how the run ended, the frame,
    \* merchant_to_category, the rows the loop has still to visit, the session
    \* state of the select boxes, the select boxes on the screen and those the
    \* run has shown, and the number of assignments of the run
    ct_pc, ct_text, ct_year, ct_transactions, ct_last, ct_status, ct_df, ct_map,
    ct_pending, ct_widgets, ct_screen, ct_shown, ct_assigned, ct_clicks,
    \* the mapping file, and load_mapping followed by save_mapping on it
    mp_file, rt_pc, rt_before, rt_map,
    \* a run of pages/1_citibank_dashboard.py in another browser session: its
    \* position among load_mapping, the assignment and save_mapping, and its
    \* merchant_to_category
    s2_pc, s2_map

eaVars == <<ea_pc, ea_fn, ea_desc, ea_info, ea_clean, ea_again>>
meVars == <<me_pc, me_text, me_year, me_df>>
ccVars == <<cc_pc, cc_doc, cc_year, cc_method, cc_info, cc_transactions, cc_df, cc_clean>>

ctVars == <<ct_pc, ct_text, ct_year, ct_transactions, ct_last, ct_status, ct_df, ct_map,
           ct_pending, ct_widgets, ct_screen, ct_shown, ct_assigned, ct_clicks>>
mpVars == <<mp_file, rt_pc, rt_before, rt_map, s2_pc, s2_map>>

vars == <<eaVars, meVars, ccVars, ctVars, mpVars>>

\* The value of a text variable that holds nothing (Python None).
NULL == "None"

\* The value of a number column that holds nothing (None or NaN in pandas).
NaN == 0 - 1

(***************************************************************************)
(* Characters and strings                                                  *)
(***************************************************************************)
UC == <<"A","B","C","D","E","F","G","H","I","J","K","L","M",
        "N","O","P","Q","R","S","T","U","V","W","X","Y","Z">>
LC == <<"a","b","c","d","e","f","g","h","i","j","k","l","m",
        "n","o","p","q","r","s","t","u","v","w","x","y","z">>
DG == <<"0","1","2","3","4","5","6","7","8","9">>

UpperSet == { UC[i] : i \in 1..26 }
LowerSet == { LC[i] : i \in 1..26 }
DigitSet == { DG[i] : i \in 1..10 }

IsUpperCh(c) == c \in UpperSet
IsLowerCh(c) == c \in LowerSet
IsAlpha(c) == IsUpperCh(c) \/ IsLowerCh(c)
IsDigit(c) == c \in DigitSet
\* \s of the re module
IsSpace(c) == c \in {" ", "\n", "\t"}
\* \w of the re module
IsWord(c) == IsAlpha(c) \/ IsDigit(c) \/ c = "_"

UpperOf == [c \in LowerSet |-> UC[CHOOSE i \in 1..26 : LC[i] = c]]
LowerOf == [c \in UpperSet |-> LC[CHOOSE i \in 1..26 : UC[i] = c]]
ToUpperCh(c) == IF IsLowerCh(c) THEN UpperOf[c] ELSE c
ToLowerCh(c) == IF IsUpperCh(c) THEN LowerOf[c] ELSE c

\* str.upper() and str.lower()
StrUpper(s) == [i \in 1..Len(s) |-> ToUpperCh(s[i])]
StrLower(s) == [i \in 1..Len(s) |-> ToLowerCh(s[i])]

\* the character at position i, or "" beyond either end of the string
At(s, i) == IF i >= 1 /\ i <= Len(s) THEN s[i] ELSE ""

\* s[i:] in Python terms (1-based here)
From(s, i) == IF i > Len(s) THEN <<>> ELSE SubSeq(s, i, Len(s))

\* the literal w stands at position i of s
HasAt(s, i, w) ==
    /\ i >= 1
    /\ i + Len(w) - 1 <= Len(s)
    /\ \A k \in 1..Len(w) : s[i + k - 1] = w[k]

\* the same, ignoring case (re.IGNORECASE on a literal)
HasAtCI(s, i, w) ==
    /\ i >= 1
    /\ i + Len(w) - 1 <= Len(s)
    /\ \A k \in 1..Len(w) : ToUpperCh(s[i + k - 1]) = ToUpperCh(w[k])

\* str.startswith, str.endswith and the "in" operator of str
StartsWith(s, w) == HasAt(s, 1, w)
EndsWith(s, w) == HasAt(s, Len(s) - Len(w) + 1, w)
Contains(s, w) == \E i \in 1..(Len(s) - Len(w) + 1) : HasAt(s, i, w)
ContainsCI(s, w) == \E i \in 1..(Len(s) - Len(w) + 1) : HasAtCI(s, i, w)
EndsWithCI(s, w) == HasAtCI(s, Len(s) - Len(w) + 1, w)

\* \b of the re module between positions i-1 and i
WordBoundary(s, i) == IsWord(At(s, i - 1)) # IsWord(At(s, i))

\* str.strip(): the string without its leading and trailing whitespace
RECURSIVE LStrip(_)
LStrip(s) == IF s # <<>> /\ IsSpace(Head(s)) THEN LStrip(Tail(s)) ELSE s
RECURSIVE RStrip(_)
RStrip(s) ==
    IF s # <<>> /\ IsSpace(s[Len(s)]) THEN RStrip(SubSeq(s, 1, Len(s) - 1)) ELSE s
Strip(s) == RStrip(LStrip(s))

\* str.replace("\n", " ")
ReplaceNewlines(s) == [i \in 1..Len(s) |-> IF s[i] = "\n" THEN " " ELSE s[i]]

\* " ".join(parts)
RECURSIVE JoinSp(_)
JoinSp(parts) ==
    IF parts = <<>> THEN <<>>
    ELSE IF Len(parts) = 1 THEN parts[1]
    ELSE parts[1] \o <<" ">> \o JoinSp(Tail(parts))

\* the first position after the run of whitespace that starts at i
RECURSIVE SkipSpace(_, _)
SkipSpace(s, i) == IF IsSpace(At(s, i)) THEN SkipSpace(s, i + 1) ELSE i

(***************************************************************************)
(* extract_alphabets, both versions                                        *)
(***************************************************************************)
Months == << <<"J","A","N">>, <<"F","E","B">>, <<"M","A","R">>, <<"A","P","R">>,
             <<"M","A","Y">>, <<"J","U","N">>, <<"J","U","L">>, <<"A","U","G">>,
             <<"S","E","P">>, <<"O","C","T">>, <<"N","O","V">>, <<"D","E","C">> >>
SINGAPORE == <<"S","I","N","G","A","P","O","R","E">>
SG == <<"S","G">>

\* r'\b\d{2}\s(?:Jan|...|Dec)\b' with IGNORECASE at position i: the position
\* after the match, or 0
DayMonthAt(s, i) ==
    IF /\ IsDigit(At(s, i)) /\ IsDigit(At(s, i + 1))
       /\ WordBoundary(s, i)
       /\ IsSpace(At(s, i + 2))
       /\ \E m \in 1..12 : HasAtCI(s, i + 3, Months[m])
       /\ WordBoundary(s, i + 6)
    THEN i + 6 ELSE 0

\* r"\bSINGAPORE\s+SG\b" with IGNORECASE at position i: the position after
\* the match, or 0
SingaporeSgAt(s, i) ==
    IF /\ ToUpperCh(At(s, i)) = "S"
       /\ WordBoundary(s, i)
       /\ HasAtCI(s, i, SINGAPORE)
       /\ IsSpace(At(s, i + 9))
       /\ HasAtCI(s, SkipSpace(s, i + 9), SG)
       /\ WordBoundary(s, SkipSpace(s, i + 9) + 2)
    THEN SkipSpace(s, i + 9) + 2 ELSE 0

\* re.sub(r'\b\d{2}\s(?:Jan|...)\b', '', s) from position i on
RECURSIVE RemoveDayMonth(_, _)
RemoveDayMonth(s, i) ==
    IF i > Len(s) THEN <<>>
    ELSE IF \A k \in i..Len(s) : DayMonthAt(s, k) = 0 THEN SubSeq(s, i, Len(s))
    ELSE IF DayMonthAt(s, i) # 0 THEN RemoveDayMonth(s, DayMonthAt(s, i))
    ELSE <<s[i]>> \o RemoveDayMonth(s, i + 1)

\* re.sub(r"\bSINGAPORE\s+SG\b", "", s) from position i on
RECURSIVE RemoveSingaporeSg(_, _)
RemoveSingaporeSg(s, i) ==
    IF i > Len(s) THEN <<>>
    ELSE IF \A k \in i..Len(s) : SingaporeSgAt(s, k) = 0 THEN SubSeq(s, i, Len(s))
    ELSE IF SingaporeSgAt(s, i) # 0 THEN RemoveSingaporeSg(s, SingaporeSgAt(s, i))
    ELSE <<s[i]>> \o RemoveSingaporeSg(s, i + 1)

\* the positions of s that start a run of characters of a class, and those
\* outside the class, in order
RunStarts(s, InClass(_)) ==
    SelectSeq([i \in 1..Len(s) |-> i],
              LAMBDA i : ~InClass(s[i]) \/ i = 1 \/ ~InClass(s[i - 1]))

\* re.sub(r'\s{2,}', ' ', s): a run of two or more becomes one space
CollapseAt(s, idx) ==
    [k \in 1..Len(idx) |->
        IF IsSpace(s[idx[k]]) /\ IsSpace(At(s, idx[k] + 1)) THEN " " ELSE s[idx[k]]]
CollapseSpaces(s) == CollapseAt(s, RunStarts(s, IsSpace))

\* re.sub(r"[^A-Za-z0-9\s]+", " ", s)
KeepsCard(c) == IsAlpha(c) \/ IsDigit(c) \/ IsSpace(c)
NotKeptCard(c) == ~KeepsCard(c)
BlankAt(s, idx, InClass(_)) ==
    [k \in 1..Len(idx) |-> IF InClass(s[idx[k]]) THEN " " ELSE s[idx[k]]]
BlankNotKeptCard(s) == BlankAt(s, RunStarts(s, NotKeptCard), NotKeptCard)

\* re.sub(r'[^A-Za-z]+', ' ', s)
NotAlpha(c) == ~IsAlpha(c)
BlankNotAlpha(s) == BlankAt(s, RunStarts(s, NotAlpha), NotAlpha)

\* extract_alphabets of pages/2_uob_statement_dashboard.py
extract_alphabets_card(desc, info) ==
    Strip(BlankNotKeptCard(CollapseSpaces(RemoveSingaporeSg(RemoveDayMonth(
        Strip(ReplaceNewlines(desc \o <<" ">> \o info)), 1), 1))))

\* extract_alphabets of uob_statement_dashboard.py
extract_alphabets_uob(desc, info) ==
    Strip(BlankNotAlpha(RemoveSingaporeSg(
        IF desc # <<>> \/ info # <<>>
        THEN Strip(ReplaceNewlines(desc \o <<" ">> \o info))
        ELSE <<>>, 1)))

(***************************************************************************)
(* Numbers and dates                                                       *)
(***************************************************************************)
DigitValue == [c \in DigitSet |-> (CHOOSE i \in 1..10 : DG[i] = c) - 1]
DigitVal(c) == DigitValue[c]

\* the value of a run of digits, thousands separators skipped
RECURSIVE DigitsValue(_)
DigitsValue(s) ==
    IF s = <<>> THEN 0
    ELSE IF IsDigit(s[Len(s)])
         THEN 10 * DigitsValue(SubSeq(s, 1, Len(s) - 1)) + DigitVal(s[Len(s)])
         ELSE DigitsValue(SubSeq(s, 1, Len(s) - 1))

\* float(amt.replace(',', '')) of a string "d,ddd.dd", in cents
AmountValue(s) == DigitsValue(s)

\* the groups (?:,\d{3})* from position i, taken greedily: the position after
RECURSIVE SkipThousands(_, _)
SkipThousands(s, i) ==
    IF At(s, i) = "," /\ IsDigit(At(s, i + 1)) /\ IsDigit(At(s, i + 2))
                      /\ IsDigit(At(s, i + 3))
    THEN SkipThousands(s, i + 4) ELSE i

\* \d{n}(?:,\d{3})*\.\d{2} at position i: the position after the match, or 0
AmountTail(s, j) ==
    IF At(s, j) = "." /\ IsDigit(At(s, j + 1)) /\ IsDigit(At(s, j + 2))
    THEN j + 3 ELSE 0
AmountEndWith(s, i, n) ==
    IF \A k \in 0..(n - 1) : IsDigit(At(s, i + k))
    THEN AmountTail(s, SkipThousands(s, i + n)) ELSE 0

\* r'\d{1,3}(?:,\d{3})*\.\d{2}' at position i, three digits tried first:
\* the position after the match, or 0
AmountAt(s, i) ==
    IF ~IsDigit(At(s, i)) THEN 0
    ELSE IF AmountEndWith(s, i, 3) # 0 THEN AmountEndWith(s, i, 3)
    ELSE IF AmountEndWith(s, i, 2) # 0 THEN AmountEndWith(s, i, 2)
    ELSE AmountEndWith(s, i, 1)

\* the whole string is one amount: r'^\d{1,3}(?:,\d{3})*\.\d{2}$'
IsAmount(s) == \E n \in 1..3 : AmountEndWith(s, 1, n) = Len(s) + 1

\* the length of the run of digits that starts at position i
RECURSIVE DigitRun(_, _)
DigitRun(s, i) == IF IsDigit(At(s, i)) THEN 1 + DigitRun(s, i + 1) ELSE 0

DaysIn(m, y) ==
    IF m = 2 THEN (IF (y % 4 = 0 /\ y % 100 # 0) \/ y % 400 = 0 THEN 29 ELSE 28)
    ELSE IF m \in {4, 6, 9, 11} THEN 30 ELSE 31

\* the value of a date that does not parse (pandas NaT)
NaT == [y |-> 0, m |-> 0, d |-> 0]

\* pd.to_datetime("dd Mon yyyy", format="%d %b %Y", errors="coerce")
ToDatetime(d, y) ==
    IF Len(d) = 6 /\ IsDigit(d[1]) /\ IsDigit(d[2]) /\ IsSpace(d[3])
       /\ \E m \in 1..12 : HasAtCI(d, 4, Months[m])
    THEN LET m == CHOOSE k \in 1..12 : HasAtCI(d, 4, Months[k])
             day == 10 * DigitVal(d[1]) + DigitVal(d[2])
         IN  IF day >= 1 /\ day <= DaysIn(m, y)
             THEN [y |-> y, m |-> m, d |-> day] ELSE NaT
    ELSE NaT

(***************************************************************************)
(* uob_statement_dashboard.py: parse_month_end                             *)
(*                                                                         *)
(* The text is a sequence of lines; a line is the date ("dd Mon") and the  *)
(* fields after it, separated by single spaces.  The regular expression of *)
(* parse_month_end is modelled on the fields of a line.                    *)
(***************************************************************************)
\* a field made of [A-Z0-9-] only: the description group can take it
IsDescField(t) == t # <<>> /\ \A k \in 1..Len(t) : IsUpperCh(t[k]) \/ IsDigit(t[k]) \/ t[k] = "-"

\* how many leading fields the description group can take
RECURSIVE DescRun(_)
DescRun(toks) ==
    IF toks # <<>> /\ IsDescField(Head(toks)) THEN 1 + DescRun(Tail(toks)) ELSE 0

\* The match of the pattern on one line; a group that matched nothing is <<>>.  The description is greedy and gives
\* fields back; the info is lazy but is tried before the description gives
\* anything back, so with single spaces it holds at least one field and ends
\* before the first amount after that.  At the end of the info the look-ahead
\* has seen whitespace, so the withdrawal group, which must start with a digit
\* or "-", matches nothing there.  The deposit group takes an amount only when
\* another amount is left for the balance.
PatternGroups(toks, i, j, two) ==
    [matched |-> TRUE,
     description |-> JoinSp(SubSeq(toks, 1, i)),
     info |-> JoinSp(SubSeq(toks, i + 1, j)),
     withdrawal |-> <<>>,
     deposit |-> IF two THEN toks[j + 1] ELSE <<>>,
     balance |-> IF two THEN toks[j + 2] ELSE toks[j + 1]]
PatternInfoEnd(toks, i, ends) ==
    PatternGroups(toks, i, CHOOSE b \in ends : \A c \in ends : b <= c,
                  LET j == CHOOSE b \in ends : \A c \in ends : b <= c
                  IN  j + 2 <= Len(toks) /\ IsAmount(toks[j + 2]))
PatternDescEnd(toks, cand, i) ==
    PatternInfoEnd(toks, i, {p[2] : p \in {q \in cand : q[1] = i}})
PatternAmong(toks, cand) ==
    IF cand = {} THEN [matched |-> FALSE]
    ELSE PatternDescEnd(toks, cand,
             CHOOSE a \in {p[1] : p \in cand} : \A p \in cand : p[1] <= a)
PatternMatch(toks) ==
    PatternAmong(toks, { p \in (1..DescRun(toks)) \X (1..Len(toks)) :
                            /\ p[2] >= p[1] + 1
                            /\ p[2] + 1 <= Len(toks)
                            /\ IsAmount(toks[p[2] + 1]) })

\* str.replace(',', '')
RemoveCommas(s) == SelectSeq(s, LAMBDA c : c # ",")

\* the first match of r'\d+\.\d{2}' from position i on: <<start, digits>> or <<0, 0>>
RECURSIVE FirstDecimal(_, _)
DecimalAt(s, i, r) ==
    IF r > 0 /\ At(s, i + r) = "." /\ IsDigit(At(s, i + r + 1)) /\ IsDigit(At(s, i + r + 2))
    THEN <<i, r>>
    ELSE FirstDecimal(s, i + 1)
FirstDecimal(s, i) == IF i > Len(s) THEN <<0, 0>> ELSE DecimalAt(s, i, DigitRun(s, i))

FirstDecimalValue(cleaned, m) ==
    IF m[1] = 0 THEN NaN ELSE AmountValue(SubSeq(cleaned, m[1], m[1] + m[2] + 2))
FirstDecimalOf(cleaned) == FirstDecimalValue(cleaned, FirstDecimal(cleaned, 1))
extract_withdrawal(desc, info) ==
    FirstDecimalOf(RemoveCommas(IF desc # <<>> \/ info # <<>>
                                THEN Strip(ReplaceNewlines(desc \o <<" ">> \o info))
                                ELSE <<>>))

\* df.loc[i, ...]: the row labelled i, rows being a sequence of records with
\* an index field
HasLabel(rows, i) == \E k \in 1..Len(rows) : rows[k].index = i
Loc(rows, i) == rows[CHOOSE k \in 1..Len(rows) : rows[k].index = i]
SetLoc(rows, i, r) == [k \in 1..Len(rows) |-> IF rows[k].index = i THEN r ELSE rows[k]]

\* the loop of impute_clean_withdrawal from i on; df.loc raises KeyError for
\* a label that the date filter has removed
RECURSIVE ImputeFrom(_, _)
ImputeFrom(rows, i) ==
    IF i >= Len(rows) THEN [status |-> "ok", rows |-> rows]
    ELSE IF ~HasLabel(rows, i) \/ ~HasLabel(rows, i - 1)
         THEN [status |-> "KeyError", rows |-> <<>>]
    ELSE LET cur == Loc(rows, i)
             prev == Loc(rows, i - 1)
         IN  IF cur.deposit # NaN /\ cur.balance < prev.balance
             THEN ImputeFrom(SetLoc(rows, i,
                      [cur EXCEPT !.clean_withdrawal = cur.deposit, !.deposit = NaN]),
                      i + 1)
             ELSE ImputeFrom(rows, i + 1)

\* the reconciliation pass left out
ImputeSkipped(rows) == [status |-> "ok", rows |-> rows]
impute_clean_withdrawal(rows) == ImputeFrom(rows, 1)

\* float(data[field].replace(',', '')) if data[field] else None
FloatOrNone(s) == IF s = <<>> THEN NaN ELSE AmountValue(s)

\* the list `transactions` of parse_month_end: one entry for each line the
\* pattern matches, the numbers converted
RECURSIVE MatchedRows(_, _)
MatchedRow(date, m) ==
    IF ~m.matched THEN <<>>
    ELSE << [date |-> date,
             description |-> m.description,
             info |-> m.info,
             withdrawal |-> FloatOrNone(m.withdrawal),
             deposit |-> FloatOrNone(m.deposit),
             balance |-> FloatOrNone(m.balance)] >>
MatchedRows(text, y) ==
    IF text = <<>> THEN <<>>
    ELSE MatchedRow(Head(text).date, PatternMatch(Head(text).fields))
         \o MatchedRows(Tail(text), y)

\* one row of the frame with the two new columns; clean_withdrawal is filled
\* from withdrawal where extract_withdrawal found nothing
CleanedRow(k, t, y, w) ==
    [index |-> k - 1,
     date |-> ToDatetime(t.date, y),
     clean_description |-> extract_alphabets_uob(t.description, t.info),
     clean_withdrawal |-> IF w = NaN THEN t.withdrawal ELSE w,
     deposit |-> t.deposit,
     balance |-> t.balance]

\* the frame after the date filter and the two new columns, labels kept
CleanedRows(trans, y) ==
    SelectSeq([k \in 1..Len(trans) |->
                  CleanedRow(k, trans[k], y,
                             extract_withdrawal(trans[k].description, trans[k].info))],
              LAMBDA r : r.date # NaT)

\* The outcomes of parse_month_end.  Without any match the frame has no "date"
\* column (KeyError).  When the date filter leaves no row, df.apply returns a
\* frame and the column assignment either fails or yields an empty table,
\* depending on the pandas release.
MonthEndOutcomes(trans, rows) ==
    IF trans = <<>> THEN { [status |-> "KeyError", rows |-> <<>>] }
    ELSE IF rows = <<>>
         THEN { [status |-> "ValueError", rows |-> <<>>],
                [status |-> "ok", rows |-> <<>>] }
    ELSE { impute_clean_withdrawal(rows) }
MonthEndFrame(trans, y) == MonthEndOutcomes(trans, CleanedRows(trans, y))
parse_month_end(text, y) == MonthEndFrame(MatchedRows(text, y), y)

(***************************************************************************)
(* pages/2_uob_statement_dashboard.py: the three grammars                  *)
(***************************************************************************)
\* re.findall(r'\d{1,3}(?:,\d{3})*\.\d{2}', s) from position i on
RECURSIVE FindAmounts(_, _)
FoundAmount(s, i, e) ==
    IF e # 0 THEN <<SubSeq(s, i, e - 1)>> \o FindAmounts(s, e)
    ELSE FindAmounts(s, i + 1)
FindAmounts(s, i) == IF i > Len(s) THEN <<>> ELSE FoundAmount(s, i, AmountAt(s, i))

\* re.sub(r'\d{1,3}(?:,\d{3})*\.\d{2}', '', s) from position i on
RECURSIVE RemoveAmounts(_, _)
RemovedAmount(s, i, e) ==
    IF e # 0 THEN RemoveAmounts(s, e) ELSE <<s[i]>> \o RemoveAmounts(s, i + 1)
RemoveAmounts(s, i) == IF i > Len(s) THEN <<>> ELSE RemovedAmount(s, i, AmountAt(s, i))

\* str.isupper(): some cased character and no lower-case one
IsUpperStr(s) ==
    /\ \E k \in 1..Len(s) : IsUpperCh(s[k])
    /\ \A k \in 1..Len(s) : ~IsLowerCh(s[k])

\* re.match(r'^[\d\s,.]+$', s)
IsNumericOnly(s) ==
    /\ s # <<>>
    /\ \A k \in 1..Len(s) : IsDigit(s[k]) \/ IsSpace(s[k]) \/ s[k] \in {",", "."}

\* the prefixes of parse_with_newline_patterns, matched with re.IGNORECASE
NewlinePrefixes == { <<"N","E","T","S">>, <<"M","i","s","c">>,
                     <<"P","A","Y","N","O","W">>, <<"I","n","w","a","r","d">>,
                     <<"B","a","l","a","n","c","e">>, <<"D","R","-">>, <<"C","R","-">> }
HasNewlinePrefix(s) == \E w \in NewlinePrefixes : HasAtCI(s, 1, w)

\* "SINGAPORE" in text.upper() or text.upper().endswith(" SG")
IsLocation(s) == ContainsCI(s, SINGAPORE) \/ EndsWithCI(s, <<" ","S","G">>)

\* the keywords of finalize_transaction, looked up in trans_type.lower()
CreditKeywords == { <<"i","n","w","a","r","d">>, <<"c","r","e","d","i","t">>,
                    <<"c","r","-">>, <<"d","e","p","o","s","i","t">>,
                    <<"r","e","f","u","n","d">>, <<"r","e","v","e","r","s","a","l">> }
IsCreditType(s) == \E w \in CreditKeywords : ContainsCI(s, w)

\* re.search(r'(\d{1,2}\s+\w{3})', s) from position i on: <<first, last>> of the
\* match, or <<0, 0>>
DateEndWith(s, i, n) ==
    LET j == SkipSpace(s, i + n)
    IN  IF /\ \A k \in 0..(n - 1) : IsDigit(At(s, i + k))
           /\ IsSpace(At(s, i + n))
           /\ IsWord(At(s, j)) /\ IsWord(At(s, j + 1)) /\ IsWord(At(s, j + 2))
        THEN j + 2 ELSE 0
RECURSIVE SearchDate(_, _)
SearchDate(s, i) ==
    IF i > Len(s) THEN <<0, 0>>
    ELSE IF DateEndWith(s, i, 2) # 0 THEN <<i, DateEndWith(s, i, 2)>>
    ELSE IF DateEndWith(s, i, 1) # 0 THEN <<i, DateEndWith(s, i, 1)>>
    ELSE SearchDate(s, i + 1)

Default01Jan == <<"0","1"," ","J","a","n">>

\* [float(amt.replace(',', '')) for amt in amounts if amt]
ParsedAmounts(amounts) ==
    LET kept == SelectSeq(amounts, LAMBDA a : a # <<>>)
    IN  [k \in 1..Len(kept) |-> AmountValue(kept[k])]

Finalized(trans_type, description, parsed_amounts, location, y, dm) ==
    [date |-> [text |-> IF dm[1] # 0 THEN SubSeq(description, dm[1], dm[2])
                        ELSE Default01Jan,
               year |-> y],
     transaction_type |-> trans_type,
     description |-> description,
     info |-> location,
     withdrawal |-> IF IsCreditType(trans_type) THEN 0
                    ELSE IF parsed_amounts # <<>> THEN parsed_amounts[1] ELSE 0,
     deposit |-> IF ~IsCreditType(trans_type) THEN 0
                 ELSE IF parsed_amounts # <<>> THEN parsed_amounts[1] ELSE 0,
     balance |-> IF Len(parsed_amounts) > 1 THEN parsed_amounts[Len(parsed_amounts)]
                 ELSE IF parsed_amounts # <<>> THEN parsed_amounts[1] ELSE 0]
FinalizedDated(trans_type, description, parsed_amounts, location, y) ==
    Finalized(trans_type, description, parsed_amounts, location, y,
              SearchDate(description, 1))
finalize_transaction(td, y) ==
    FinalizedDated(td.transaction_type, Strip(JoinSp(td.description_parts)),
                   ParsedAmounts(td.amounts), td.location, y)

\* the state of a grammar loop: the records closed so far and the open one
NoOpen == [open |-> FALSE]
NewTransaction(type) ==
    [open |-> TRUE, transaction_type |-> type, description_parts |-> <<>>,
     amounts |-> <<>>, location |-> <<>>]
Closed(transactions, cur, y) ==
    IF cur.open THEN Append(transactions, finalize_transaction(cur, y)) ELSE transactions

\* a block that is not a header, added to the open record
FormattingAddNoAmounts(cur, text) ==
    [cur EXCEPT !.location = IF IsLocation(text) THEN text ELSE @,
                !.description_parts = IF IsLocation(text) THEN @ ELSE Append(@, text)]
FormattingAdd(cur, text) ==
    [cur EXCEPT !.amounts = @ \o FindAmounts(text, 1),
                !.location = IF IsLocation(text) THEN text ELSE @,
                !.description_parts = IF IsLocation(text) THEN @ ELSE Append(@, text)]

\* the loop of parse_with_formatting from block k on
RECURSIVE FormattingFrom(_, _, _, _, _)
FormattingBlock(blocks, k, transactions, cur, y, text) ==
    IF text = <<>> THEN FormattingFrom(blocks, k + 1, transactions, cur, y)
    ELSE IF blocks[k].bold /\ Len(text) > 3
         THEN FormattingFrom(blocks, k + 1, Closed(transactions, cur, y),
                             NewTransaction(text), y)
    ELSE IF cur.open
         THEN FormattingFrom(blocks, k + 1, transactions, FormattingAdd(cur, text), y)
    ELSE FormattingFrom(blocks, k + 1, transactions, cur, y)
FormattingFrom(blocks, k, transactions, cur, y) ==
    IF k > Len(blocks) THEN Closed(transactions, cur, y)
    ELSE FormattingBlock(blocks, k, transactions, cur, y, Strip(blocks[k].text))

parse_with_formatting(blocks, y) == FormattingFrom(blocks, 1, <<>>, NoOpen, y)

\* a regular description line, added to the open record
NewlineAdd(cur, line, amount_matches) ==
    IF amount_matches # <<>>
    THEN [cur EXCEPT !.amounts = @ \o amount_matches,
                     !.description_parts =
                         IF Strip(RemoveAmounts(line, 1)) # <<>>
                         THEN Append(@, Strip(RemoveAmounts(line, 1))) ELSE @]
    ELSE [cur EXCEPT !.description_parts = Append(@, line)]

\* the loop of parse_with_newline_patterns from line k on
RECURSIVE NewlineFrom(_, _, _, _, _)
NewlineLine(lines, k, transactions, cur, y, line) ==
    IF line = <<>> THEN NewlineFrom(lines, k + 1, transactions, cur, y)
    ELSE IF IsUpperStr(line) /\ Len(line) > 5 /\ ~IsNumericOnly(line)
         THEN NewlineFrom(lines, k + 1, Closed(transactions, cur, y),
                          NewTransaction(line), y)
    ELSE IF HasNewlinePrefix(line)
         THEN NewlineFrom(lines, k + 1, Closed(transactions, cur, y),
                          NewTransaction(line), y)
    ELSE IF IsAmount(line) /\ cur.open
         THEN NewlineFrom(lines, k + 1, transactions,
                          [cur EXCEPT !.amounts = Append(@, line)], y)
    ELSE IF IsLocation(line)
         THEN NewlineFrom(lines, k + 1, transactions,
                          IF cur.open THEN [cur EXCEPT !.location = line] ELSE cur, y)
    ELSE IF cur.open
         THEN NewlineFrom(lines, k + 1, transactions,
                          NewlineAdd(cur, line, FindAmounts(line, 1)), y)
    ELSE NewlineFrom(lines, k + 1, transactions, cur, y)
NewlineFrom(lines, k, transactions, cur, y) ==
    IF k > Len(lines) THEN Closed(transactions, cur, y)
    ELSE NewlineLine(lines, k, transactions, cur, y, Strip(lines[k]))

parse_with_newline_patterns(lines, y) == NewlineFrom(lines, 1, <<>>, NoOpen, y)

\* the prefixes of parse_line_by_line_v2, matched with str.startswith
LineTypes == { <<"N","E","T","S">>, <<"M","i","s","c"," ","D","R">>,
               <<"P","A","Y","N","O","W">>,
               <<"I","n","w","a","r","d"," ","C","R">>,
               <<"B","a","l","a","n","c","e">> }
IsTransactionStart(s) == \E w \in LineTypes : StartsWith(s, w)

\* re.search(r'(\d{1,3}(?:,\d{3})*\.\d{2})', s): the first amount or <<>>
FirstOf(found) == IF found = <<>> THEN <<>> ELSE found[1]
SearchAmount(s) == FirstOf(FindAmounts(s, 1))

\* 'inward cr' in transaction_type.lower()
IsInwardCr(s) == ContainsCI(s, <<"i","n","w","a","r","d"," ","c","r">>)

\* the dictionary of parse_line_by_line_v2; a key that is not set is NaN in
\* the frame built from the list
NewLineTransaction(type) ==
    [open |-> TRUE, transaction_type |-> type, description |-> <<>>,
     withdrawal |-> NaN, deposit |-> NaN, balance |-> NaN]
ClosedLine(transactions, cur) ==
    IF cur.open THEN Append(transactions, cur) ELSE transactions

\* the line that carries the amount of the open record
LineAmount(cur, amount) ==
    IF IsInwardCr(cur.transaction_type)
    THEN [cur EXCEPT !.deposit = amount, !.withdrawal = 0, !.balance = amount]
    ELSE [cur EXCEPT !.withdrawal = amount, !.deposit = 0, !.balance = amount]

\* the loop of parse_line_by_line_v2 from line k on
RECURSIVE LineByLineFrom(_, _, _, _)
LineByLineLine(lines, k, transactions, cur, line, amount_match) ==
    IF line = <<>> THEN LineByLineFrom(lines, k + 1, transactions, cur)
    ELSE IF IsTransactionStart(line)
         THEN LineByLineFrom(lines, k + 1, ClosedLine(transactions, cur),
                             NewLineTransaction(line))
    ELSE IF amount_match # <<>> /\ cur.open
         THEN LineByLineFrom(lines, k + 1, transactions,
                             LineAmount(cur, AmountValue(amount_match)))
    ELSE IF cur.open
         THEN LineByLineFrom(lines, k + 1, transactions,
                  [cur EXCEPT !.description =
                      IF @ # <<>> THEN @ \o <<" ">> \o line ELSE line])
    ELSE LineByLineFrom(lines, k + 1, transactions, cur)
LineByLineStripped(lines, k, transactions, cur, line) ==
    LineByLineLine(lines, k, transactions, cur, line, SearchAmount(line))
LineByLineFrom(lines, k, transactions, cur) ==
    IF k > Len(lines) THEN ClosedLine(transactions, cur)
    ELSE LineByLineStripped(lines, k, transactions, cur, Strip(lines[k]))

\* the date and info columns added to the dictionaries
LineByLineList(transactions, y) ==
    [k \in 1..Len(transactions) |->
        [date |-> [text |-> Default01Jan, year |-> y],
         transaction_type |-> transactions[k].transaction_type,
         description |-> transactions[k].description,
         info |-> <<>>,
         withdrawal |-> transactions[k].withdrawal,
         deposit |-> transactions[k].deposit,
         balance |-> transactions[k].balance]]
parse_line_by_line_v2(lines, y) ==
    LineByLineList(LineByLineFrom(lines, 1, <<>>, NoOpen), y)

\* pd.to_datetime of "<d or dd> <Mon> <yyyy>" without a format, errors="coerce"
FreeDate(d, y, n, j) ==
    IF /\ n \in {1, 2} /\ IsSpace(At(d, n + 1)) /\ Len(d) = j + 2
       /\ \E m \in 1..12 : HasAtCI(d, j, Months[m])
    THEN LET m == CHOOSE k \in 1..12 : HasAtCI(d, j, Months[k])
             day == DigitsValue(SubSeq(d, 1, n))
         IN  IF day >= 1 /\ day <= DaysIn(m, y)
             THEN [y |-> y, m |-> m, d |-> day] ELSE NaT
    ELSE NaT
ToDatetimeFree(d, y) == FreeDate(d, y, DigitRun(d, 1), SkipSpace(d, DigitRun(d, 1) + 1))

\* a column that no record sets is added with 0.0
FillMissing(transactions, col) ==
    IF \A k \in 1..Len(transactions) : transactions[k][col] = NaN THEN 0 ELSE NaN

\* the frame of parse_credit_card_transactions built from the winning list
CardFrame(transactions) ==
    LET filled == [k \in 1..Len(transactions) |->
            LET t == transactions[k]
            IN  [date |-> ToDatetimeFree(t.date.text, t.date.year),
                 transaction_type |-> t.transaction_type,
                 clean_description |-> extract_alphabets_card(t.description, t.info),
                 withdrawal |-> IF t.withdrawal = NaN
                                THEN FillMissing(transactions, "withdrawal")
                                ELSE t.withdrawal,
                 deposit |-> IF t.deposit = NaN
                             THEN FillMissing(transactions, "deposit") ELSE t.deposit,
                 balance |-> IF t.balance = NaN
                             THEN FillMissing(transactions, "balance") ELSE t.balance]]
        dated == SelectSeq(filled, LAMBDA r : r.date # NaT)
    IN  SelectSeq(dated, LAMBDA r :
            ~((r.deposit = NaN \/ r.deposit = 0) /\ (r.withdrawal = NaN \/ r.withdrawal = 0)))

\* the messages shown by st.info when a method is given up
InfoNewline == "No bold formatting found, using newline pattern analysis..."
InfoLineByLine == "Newline patterns failed, trying line-by-line parsing..."

\* parse_credit_card_transactions: the method that supplied the records, the
\* messages shown, the records and the table returned
CardResult(m1, m2, m3) ==
    [method |-> IF m1 # <<>> THEN "formatting"
                ELSE IF m2 # <<>> THEN "newline"
                ELSE IF m3 # <<>> THEN "line_by_line" ELSE "none",
     info |-> (IF m1 = <<>> THEN <<InfoNewline>> ELSE <<>>)
              \o (IF m2 = <<>> THEN <<InfoLineByLine>> ELSE <<>>),
     transactions |-> m3,
     df |-> [status |-> "ok", rows |-> CardFrame(m3)]]
\* Method 3, run when the first two have left the list empty
CardMethod3(lines, y, m1, m2) ==
    CardResult(m1, m2, IF m2 = <<>> THEN parse_line_by_line_v2(lines, y) ELSE m2)
\* Method 2, run when the first has left the list empty
CardMethod2(lines, y, m1) ==
    CardMethod3(lines, y, m1,
                IF m1 = <<>> THEN parse_with_newline_patterns(lines, y) ELSE m1)
parse_credit_card_transactions(lines, formatted_blocks, y) ==
    CardMethod2(lines, y, IF formatted_blocks # <<>>
                          THEN parse_with_formatting(formatted_blocks, y) ELSE <<>>)

(***************************************************************************)
(* pages/1_citibank_dashboard.py: parse_transactions                       *)
(*                                                                         *)
(* The text is a sequence of words, each followed by one whitespace        *)
(* character: a newline (nl) or a space.  The three patterns are modelled  *)
(* on the words: "\s+" passes one separator of either kind, ".+?" cannot   *)
(* pass a newline.                                                         *)
(***************************************************************************)
Word(t, nl) == [t |-> t, nl |-> nl]

\* a word the group [A-Z]+ takes whole
IsCapsWord(t) == t # <<>> /\ \A k \in 1..Len(t) : IsUpperCh(t[k])
\* a word the group \d+ takes whole
IsDigits(t) == t # <<>> /\ \A k \in 1..Len(t) : IsDigit(t[k])

\* r'-?\d+\.\d{2}' at the start of a word: the length of the match, or 0
SignedAmountEnd(t, s, r) ==
    IF r > 0 /\ At(t, s + r + 1) = "." /\ IsDigit(At(t, s + r + 2))
             /\ IsDigit(At(t, s + r + 3))
    THEN s + r + 3 ELSE 0
SignedAmountFrom(t, s) == SignedAmountEnd(t, s, DigitRun(t, s + 1))
SignedAmountLen(t) == SignedAmountFrom(t, IF At(t, 1) = "-" THEN 1 ELSE 0)

\* float(m.group("amount")) in cents
SignedAmountValue(a) == IF At(a, 1) = "-" THEN 0 - DigitsValue(a) ELSE DigitsValue(a)

\* the words a..b stand on one line
SameLine(text, a, b) == \A j \in a..(b - 1) : ~text[j].nl
\* the text of the words a..b of one line
WordsText(text, a, b) == JoinSp([j \in 1..(b - a + 1) |-> text[a + j - 1].t])

\* r'\d{2}\s[A-Z]{3}\s+' with the two digits at the end of word k, behind the
\* first `off` characters of the word
DayMonAt(text, k, off) ==
    /\ k + 2 <= Len(text)
    /\ Len(text[k].t) - 2 >= off
    /\ IsDigit(text[k].t[Len(text[k].t) - 1])
    /\ IsDigit(text[k].t[Len(text[k].t)])
    /\ Len(text[k + 1].t) = 3
    /\ IsCapsWord(text[k + 1].t)
DayMonText(text, k) ==
    SubSeq(text[k].t, Len(text[k].t) - 1, Len(text[k].t))
        \o (IF text[k].nl THEN <<"\n">> ELSE <<" ">>) \o text[k + 1].t

\* r'\d{2}/\d{2}\s+' at the end of word k
SlashDateAt(text, k, off) ==
    /\ k + 1 <= Len(text)
    /\ Len(text[k].t) - 5 >= off
    /\ IsDigit(text[k].t[Len(text[k].t) - 4])
    /\ IsDigit(text[k].t[Len(text[k].t) - 3])
    /\ text[k].t[Len(text[k].t) - 2] = "/"
    /\ IsDigit(text[k].t[Len(text[k].t) - 1])
    /\ IsDigit(text[k].t[Len(text[k].t)])

NoMatch == [matched |-> FALSE]
FoundMatch(date, merchant, amountWord, k) ==
    [matched |-> TRUE, date |-> date, merchant |-> merchant,
     amount |-> SubSeq(amountWord, 1, SignedAmountLen(amountWord)),
     endWord |-> k, endOff |-> SignedAmountLen(amountWord)]

\* the least element of a set of numbers
Least(S) == CHOOSE a \in S : \A b \in S : a <= b

\* Pattern 1 with the date at word k: the merchant is the shortest run of
\* words of one line that one to three words in capitals and an amount follow
CapsThenAmount(text, b, c) ==
    /\ b + c + 1 <= Len(text)
    /\ \A j \in 1..c : IsCapsWord(text[b + j].t)
    /\ SignedAmountLen(text[b + c + 1].t) > 0
Pattern1Ends(text, k) ==
    { b \in (k + 2)..Len(text) :
        SameLine(text, k + 2, b) /\ \E c \in 1..3 : CapsThenAmount(text, b, c) }
Pattern1Found(text, k, b) ==
    FoundMatch(DayMonText(text, k), WordsText(text, k + 2, b),
               text[b + 1 + (CHOOSE c \in 1..3 : CapsThenAmount(text, b, c))].t,
               b + 1 + (CHOOSE c \in 1..3 : CapsThenAmount(text, b, c)))
Pattern1Among(text, k, ends) ==
    IF ends = {} THEN NoMatch ELSE Pattern1Found(text, k, Least(ends))
Pattern1At(text, k, off) ==
    IF DayMonAt(text, k, off) THEN Pattern1Among(text, k, Pattern1Ends(text, k))
    ELSE NoMatch

\* Pattern 2 with the date at word k: the merchant is followed by SGD and an amount
Pattern2Ends(text, k) ==
    { b \in (k + 1)..Len(text) :
        /\ SameLine(text, k + 1, b)
        /\ b + 2 <= Len(text)
        /\ text[b + 1].t = <<"S","G","D">>
        /\ SignedAmountLen(text[b + 2].t) > 0 }
Pattern2Among(text, k, ends) ==
    IF ends = {} THEN NoMatch
    ELSE FoundMatch(SubSeq(text[k].t, Len(text[k].t) - 4, Len(text[k].t)),
                    WordsText(text, k + 1, Least(ends)),
                    text[Least(ends) + 2].t, Least(ends) + 2)
Pattern2At(text, k, off) ==
    IF SlashDateAt(text, k, off) THEN Pattern2Among(text, k, Pattern2Ends(text, k))
    ELSE NoMatch

\* Pattern 3 with the date at word k: a reference number, the merchant, an amount
Pattern3Ends(text, k) ==
    { b \in (k + 3)..Len(text) :
        /\ SameLine(text, k + 3, b)
        /\ b + 1 <= Len(text)
        /\ SignedAmountLen(text[b + 1].t) > 0 }
Pattern3Among(text, k, ends) ==
    IF ends = {} THEN NoMatch
    ELSE FoundMatch(DayMonText(text, k), WordsText(text, k + 3, Least(ends)),
                    text[Least(ends) + 1].t, Least(ends) + 1)
Pattern3At(text, k, off) ==
    IF DayMonAt(text, k, off) /\ k + 3 <= Len(text) /\ IsDigits(text[k + 2].t)
    THEN Pattern3Among(text, k, Pattern3Ends(text, k))
    ELSE NoMatch

PatternAt(p, text, k, off) ==
    IF p = 1 THEN Pattern1At(text, k, off)
    ELSE IF p = 2 THEN Pattern2At(text, k, off)
    ELSE Pattern3At(text, k, off)

\* re.finditer(pattern, text) from word k on, behind the first `off`
\* characters of that word
RECURSIVE FindIter(_, _, _, _)
FindIterNext(p, text, k, m) ==
    IF m.matched THEN <<m>> \o FindIter(p, text, m.endWord, m.endOff)
    ELSE FindIter(p, text, k + 1, 0)
FindIter(p, text, k, off) ==
    IF k > Len(text) THEN <<>>
    ELSE FindIterNext(p, text, k, PatternAt(p, text, k, off))

\* the local variable `month` before its first assignment
Unbound == <<>>

\* datetime.strptime(month, '%m'): months 1 to 12, anything else raises
MonthNumber(mm) == 10 * DigitVal(mm[1]) + DigitVal(mm[2])
ValidMonth(mm) == MonthNumber(mm) >= 1 /\ MonthNumber(mm) <= 12

\* The body of the try block for one match: the record appended, or the
\* exception that skips the match, and the local `month` afterwards.  A date
\* DD/MM sets `month` before strptime can raise; a date without a space in
\* it reads `month`, which raises when nothing has set it.
SlashRecord(m, y, day, mm) ==
    IF ValidMonth(mm)
    THEN [raised |-> FALSE,
          month |-> Months[MonthNumber(mm)],
          record |-> [Date |-> day \o <<" ">> \o Months[MonthNumber(mm)],
                      Year |-> y,
                      Merchant |-> Strip(m.merchant),
                      Amount |-> SignedAmountValue(m.amount),
                      Month |-> Months[MonthNumber(mm)]]]
    ELSE [raised |-> TRUE, month |-> mm]
PlainRecord(m, y, month) ==
    IF Contains(m.date, <<" ">>)
    THEN [raised |-> FALSE, month |-> month,
          record |-> [Date |-> m.date, Year |-> y,
                      Merchant |-> Strip(m.merchant),
                      Amount |-> SignedAmountValue(m.amount),
                      Month |-> SubSeq(m.date, 4, Len(m.date))]]
    ELSE IF month = Unbound THEN [raised |-> TRUE, month |-> month]
    ELSE [raised |-> FALSE, month |-> month,
          record |-> [Date |-> m.date, Year |-> y,
                      Merchant |-> Strip(m.merchant),
                      Amount |-> SignedAmountValue(m.amount),
                      Month |-> month]]
TryRecord(m, y, month) ==
    IF Contains(m.date, <<"/">>)
    THEN SlashRecord(m, y, SubSeq(m.date, 1, 2), SubSeq(m.date, 4, 5))
    ELSE PlainRecord(m, y, month)

\* the inner loop over the matches of one pattern
RECURSIVE AppendMatches(_, _, _, _, _)
AppendTried(ms, k, y, transactions, r) ==
    AppendMatches(ms, k + 1, y,
                  IF r.raised THEN transactions ELSE Append(transactions, r.record),
                  r.month)
AppendMatches(ms, k, y, transactions, month) ==
    IF k > Len(ms) THEN [transactions |-> transactions, month |-> month]
    ELSE AppendTried(ms, k, y, transactions, TryRecord(ms[k], y, month))

\* the number of patterns of parse_transactions
PatternCount == 3

\* the outer loop from pattern p on: the list, and the last pattern run
RECURSIVE PatternsFrom(_, _, _, _, _)
\* the loop without its break
PatternNoBreak(p, text, y, r) == PatternsFrom(p + 1, text, y, r.transactions, r.month)
PatternDone(p, text, y, r) ==
    IF r.transactions # <<>> THEN [transactions |-> r.transactions, last |-> p]
    ELSE PatternsFrom(p + 1, text, y, r.transactions, r.month)
PatternsFrom(p, text, y, transactions, month) ==
    IF p > PatternCount THEN [transactions |-> transactions, last |-> PatternCount]
    ELSE PatternDone(p, text, y,
                     AppendMatches(FindIter(p, text, 1, 0), 1, y, transactions, month))

parse_transactions(text, y) == PatternsFrom(1, text, y, <<>>, Unbound)

(***************************************************************************)
(* utils/mapping.py: the mapping file and the dictionary read from it      *)
(*                                                                         *)
(* The file is its header and its rows of two cells; a dictionary is the   *)
(* sequence of its items in insertion order.                               *)
(***************************************************************************)
\* NaN in a column of strings
NaNCell == <<"nan">>

\* the cells pd.read_csv reads as missing (its default na_values and the
\* empty cell)
NAValues ==
    { <<>>, <<"#","N","/","A">>, <<"#","N","/","A"," ","N","/","A">>,
      <<"#","N","A">>, <<"-","1",".","#","I","N","D">>,
      <<"-","1",".","#","Q","N","A","N">>, <<"-","N","a","N">>,
      <<"-","n","a","n">>, <<"1",".","#","I","N","D">>,
      <<"1",".","#","Q","N","A","N">>, <<"<","N","A",">">>, <<"N","/","A">>,
      <<"N","A">>, <<"N","U","L","L">>, <<"N","a","N">>, <<"N","o","n","e">>,
      <<"n","/","a">>, <<"n","a","n">>, <<"n","u","l","l">> }

ReadCell(c) == IF c \in NAValues THEN NaNCell ELSE c
\* to_csv writes a missing value as the empty cell
WriteCell(v) == IF v = NaNCell THEN <<>> ELSE v

MappingHeader == <<"Merchant", "Category">>
NoFile == [exists |-> FALSE, header |-> <<>>, rows |-> <<>>]

DictHas(d, k) == \E i \in 1..Len(d) : d[i].key = k
DictGet(d, k) == d[CHOOSE i \in 1..Len(d) : d[i].key = k].value
\* d[k] = v: a new key goes to the end, a known key keeps its place
DictSet(d, k, v) ==
    IF DictHas(d, k)
    THEN [i \in 1..Len(d) |-> IF d[i].key = k THEN [key |-> k, value |-> v] ELSE d[i]]
    ELSE Append(d, [key |-> k, value |-> v])

\* dict(zip(mapping_df["Merchant"], mapping_df["Category"])) from row k on
RECURSIVE DictZip(_, _, _)
DictZip(rows, k, d) ==
    IF k > Len(rows) THEN d
    ELSE DictZip(rows, k + 1, DictSet(d, ReadCell(rows[k][1]), ReadCell(rows[k][2])))

load_mapping(file) == IF file.exists THEN DictZip(file.rows, 1, <<>>) ELSE <<>>

\* the write of an empty frame: the header and no row
SaveHeaderOnly(mapping) == [exists |-> TRUE, header |-> MappingHeader, rows |-> <<>>]
save_mapping(mapping) ==
    [exists |-> TRUE,
     header |-> MappingHeader,
     rows |-> [k \in 1..Len(mapping) |->
                  <<WriteCell(mapping[k].key), WriteCell(mapping[k].value)>>]]

(***************************************************************************)
(* pages/1_citibank_dashboard.py: the script from the upload to the table  *)
(***************************************************************************)
\* pd.to_datetime(df["Date"], format="%d %b %Y") of one record: the date, or
\* NaT where the conversion raises
CitiDate(rec) ==
    IF \E m \in 1..12 : HasAtCI(rec.Date, 4, Months[m])
    THEN LET m == CHOOSE k \in 1..12 : HasAtCI(rec.Date, 4, Months[k])
             day == 10 * DigitVal(rec.Date[1]) + DigitVal(rec.Date[2])
         IN  IF day >= 1 /\ day <= DaysIn(m, rec.Year)
             THEN [y |-> rec.Year, m |-> m, d |-> day] ELSE NaT
    ELSE NaT

\* df["Merchant"].map(merchant_to_category).fillna("")
CategoryOfNothing(mapping, merchant) == <<>>
CategoryOf(mapping, merchant) ==
    IF DictHas(mapping, merchant) /\ DictGet(mapping, merchant) # NaNCell
    THEN DictGet(mapping, merchant) ELSE <<>>

\* the frame with its Category column; row k carries the label k - 1
CategorizedFrame(transactions, mapping) ==
    [k \in 1..Len(transactions) |->
        [index |-> k - 1,
         Date |-> CitiDate(transactions[k]),
         Merchant |-> transactions[k].Merchant,
         Amount |-> transactions[k].Amount,
         Month |-> transactions[k].Month,
         Category |-> CategoryOf(mapping, transactions[k].Merchant)]]

\* df[df["Category"] == ""]["Merchant"].unique(), in order of appearance
RECURSIVE UncategorizedMerchants(_, _, _)
UncategorizedMerchants(df, k, seen) ==
    IF k > Len(df) THEN seen
    ELSE UncategorizedMerchants(df, k + 1,
             IF df[k].Category = <<>> /\ \A j \in 1..Len(seen) : seen[j] # df[k].Merchant
             THEN Append(seen, df[k].Merchant) ELSE seen)

\* the labels of the rows the two loops visit, in the order they visit them
RECURSIVE RowsToVisit(_, _, _)
RowsToVisit(df, merchants, k) ==
    IF k > Len(merchants) THEN <<>>
    ELSE [j \in 1..Len(SelectSeq(df, LAMBDA r : r.Merchant = merchants[k])) |->
             SelectSeq(df, LAMBDA r : r.Merchant = merchants[k])[j].index]
         \o RowsToVisit(df, merchants, k + 1)

\* the value of st.selectbox(..., key=f"cat_{i}"): the session state of the
\* key, "" for a key without state
Selected(widgets, i) == IF i \in DOMAIN widgets THEN widgets[i] ELSE <<>>

\* df.at[i, "Category"] = selected
SetCategory(df, i, selected) ==
    [k \in 1..Len(df) |-> IF df[k].index = i THEN [df[k] EXCEPT !.Category = selected]
                          ELSE df[k]]

(***************************************************************************)
(* Inputs of the normalisation harness: descriptions made of a few chunks  *)
(***************************************************************************)
MaxChunks == 3

Chunks == { <<"A">>, <<" ">>, <<",">>, SINGAPORE, SG, <<"1","2">>, <<"J","A","N">> }

RECURSIVE ChunkStrings(_)
ChunkStrings(n) ==
    IF n = 0 THEN { <<>> }
    ELSE ChunkStrings(n - 1) \cup { s \o c : s \in ChunkStrings(n - 1), c \in Chunks }

Descriptions == ChunkStrings(MaxChunks)
Infos == { <<>>, <<"B">>, SG, <<"J","A","N">> }

EaInit ==
    /\ ea_pc = "idle"
    /\ ea_fn = NULL
    /\ ea_desc = <<>>
    /\ ea_info = <<>>
    /\ ea_clean = <<>>
    /\ ea_again = <<>>

\* clean_description of one row in parse_credit_card_transactions
NormalizeCard ==
    /\ ea_pc = "idle"
    /\ \E d \in Descriptions, a \in Infos :
        /\ ea_desc' = d
        /\ ea_info' = a
        /\ ea_clean' = extract_alphabets_card(d, a)
    /\ ea_fn' = "card"
    /\ ea_pc' = "once"
    /\ UNCHANGED <<ea_again, meVars, ccVars, ctVars, mpVars>>

\* clean_description of one row in parse_month_end
NormalizeUob ==
    /\ ea_pc = "idle"
    /\ \E d \in Descriptions, a \in Infos :
        /\ ea_desc' = d
        /\ ea_info' = a
        /\ ea_clean' = extract_alphabets_uob(d, a)
    /\ ea_fn' = "uob"
    /\ ea_pc' = "once"
    /\ UNCHANGED <<ea_again, meVars, ccVars, ctVars, mpVars>>

\* the cleaned description is given to the same function again, with no info
NormalizeAgain ==
    /\ ea_pc = "once"
    /\ ea_again' = IF ea_fn = "card" THEN extract_alphabets_card(ea_clean, <<>>)
                   ELSE extract_alphabets_uob(ea_clean, <<>>)
    /\ ea_pc' = "twice"
    /\ UNCHANGED <<ea_fn, ea_desc, ea_info, ea_clean, meVars, ccVars, ctVars, mpVars>>

EaReset ==
    /\ ea_pc = "twice"
    /\ ea_pc' = "idle"
    /\ ea_fn' = NULL
    /\ ea_desc' = <<>>
    /\ ea_info' = <<>>
    /\ ea_clean' = <<>>
    /\ ea_again' = <<>>
    /\ UNCHANGED <<meVars, ccVars, ctVars, mpVars>>

NextNorm == NormalizeCard \/ NormalizeUob \/ NormalizeAgain \/ EaReset

(***************************************************************************)
(* Inputs of parse_month_end: texts of a few lines                         *)
(***************************************************************************)
MaxRows == 3

NETS == <<"N","E","T","S">>
foo == <<"f","o","o">>
A50 == <<"5","0",".","0","0">>
A100 == <<"1","0","0",".","0","0">>
A500 == <<"5","0","0",".","0","0">>
A600 == <<"6","0","0",".","0","0">>
A1150 == <<"1",",","1","5","0",".","0","0">>
A1200 == <<"1",",","2","0","0",".","0","0">>
D01Mar == <<"0","1"," ","M","a","r">>
D02Mar == <<"0","2"," ","M","a","r">>
D30Feb == <<"3","0"," ","F","e","b">>

Line(d, f) == [date |-> d, fields |-> f]

\* the lines the texts are made of: one or two amounts before the balance,
\* with or without a word after the description, a line with a balance only,
\* a line the pattern does not match, and a line whose date does not exist
MeLines == {
    Line(D01Mar, <<NETS, A50, A100>>),
    Line(D01Mar, <<NETS, A100, A50>>),
    Line(D01Mar, <<NETS, foo, A50, A100>>),
    Line(D01Mar, <<NETS, foo, A50, A50>>),
    Line(D01Mar, <<NETS, foo, A100, A50>>),
    Line(D01Mar, <<NETS, A50, A100, A100>>),
    Line(D01Mar, <<NETS, A50, A100, A50>>),
    Line(D01Mar, <<NETS, foo, A100>>),
    Line(D01Mar, <<NETS, foo, A50>>),
    Line(D01Mar, <<NETS, A50>>),
    Line(D30Feb, <<NETS, foo, A50, A100>>) }

RECURSIVE LinesUpTo(_)
LinesUpTo(n) ==
    IF n = 0 THEN { <<>> }
    ELSE LinesUpTo(n - 1) \cup { Append(t, l) : t \in LinesUpTo(n - 1), l \in MeLines }

\* the scenarios of the statement: amounts 50.00 and 1,200.00 with balance
\* 1,150.00 after a balance of 1,200.00; one amount 100.00 with balance 600.00
\* after a balance of 500.00, the amount next to the description or after a word
MeScenarios == {
    << Line(D01Mar, <<NETS, foo, A1200>>), Line(D02Mar, <<NETS, A50, A1200, A1150>>) >>,
    << Line(D01Mar, <<NETS, foo, A500>>), Line(D02Mar, <<NETS, A100, A600>>) >>,
    << Line(D01Mar, <<NETS, foo, A500>>), Line(D02Mar, <<NETS, foo, A100, A600>>) >> }

MeTexts == (LinesUpTo(MaxRows) \ { <<>> }) \cup MeScenarios

\* st.sidebar.number_input("Select year", ...)
Years == { 2024 }

NoTable == [status |-> "none", rows |-> <<>>]

MeInit ==
    /\ me_pc = "idle"
    /\ me_text = <<>>
    /\ me_year = 0
    /\ me_df = NoTable

\* a statement is uploaded to uob_statement_dashboard.py and parsed
MonthEndRun ==
    /\ me_pc = "idle"
    /\ \E t \in MeTexts, y \in Years :
        /\ me_text' = t
        /\ me_year' = y
        /\ me_df' \in parse_month_end(t, y)
    /\ me_pc' = "done"
    /\ UNCHANGED <<eaVars, ccVars, ctVars, mpVars>>

\* the next upload starts from scratch
MonthEndReset ==
    /\ me_pc = "done"
    /\ me_pc' = "idle"
    /\ me_text' = <<>>
    /\ me_year' = 0
    /\ me_df' = NoTable
    /\ UNCHANGED <<eaVars, ccVars, ctVars, mpVars>>

NextMonthEnd == MonthEndRun \/ MonthEndReset

(***************************************************************************)
(* Inputs of the card page: documents of a few lines, one span per line    *)
(***************************************************************************)
MaxLines == 3

CardLines == {
    <<"N","E","T","S">>,
    <<"I","n","w","a","r","d"," ","C","R">>,
    <<"P","A","Y","N","O","W"," ","r","e","f","u","n","d">>,
    <<"1","2",".","5","0">>,
    <<"r","e","f","u","n","d"," ","s","h","o","p">> }

Spans == { [text |-> l, bold |-> b] : l \in CardLines, b \in BOOLEAN }

RECURSIVE DocsUpTo(_)
DocsUpTo(n) ==
    IF n = 0 THEN { <<>> }
    ELSE DocsUpTo(n - 1) \cup { Append(d, s) : d \in DocsUpTo(n - 1), s \in Spans }

\* spans around a header: a location in capitals and in mixed case, a short
\* bold span, a blank span
SingaporeSG == <<"S","I","N","G","A","P","O","R","E"," ","S","G">>
CafeSG == <<"c","a","f","e"," ","S","G">>
LayoutSpans == {
    [text |-> <<"N","E","T","S">>, bold |-> TRUE],
    [text |-> SingaporeSG, bold |-> TRUE],
    [text |-> SingaporeSG, bold |-> FALSE],
    [text |-> CafeSG, bold |-> FALSE],
    [text |-> <<"S","G">>, bold |-> TRUE],
    [text |-> <<" ","S","G"," ">>, bold |-> TRUE],
    [text |-> <<" ">>, bold |-> FALSE],
    [text |-> <<"1","2",".","5","0">>, bold |-> FALSE],
    [text |-> <<"r","e","f","u","n","d"," ","s","h","o","p">>, bold |-> FALSE] }
LayoutDocs ==
    { <<a>> : a \in LayoutSpans }
    \cup { <<a, b>> : a, b \in LayoutSpans }
    \cup { <<a, b, c>> : a, b, c \in LayoutSpans }

CardDocs == (DocsUpTo(MaxLines) \ { <<>> }) \cup LayoutDocs

\* text.split('\n') of the text of the document
DocLines(doc) == [k \in 1..Len(doc) |-> doc[k].text]

CcInit ==
    /\ cc_pc = "idle"
    /\ cc_doc = <<>>
    /\ cc_year = 0
    /\ cc_method = "none"
    /\ cc_info = <<>>
    /\ cc_transactions = <<>>
    /\ cc_df = NoTable
    /\ cc_clean = <<>>

\* lines 489 to 500: the rows of the opening balance are left out, the
\* amount of "One Bonus Interest" is moved to the deposit column, the rows are
\* numbered anew and the table is cut with iloc[2:]
BalanceBF == <<"B","A","L","A","N","C","E"," ","B"," ","F">>
OneBonusInterest == <<"O","n","e"," ","B","o","n","u","s"," ","I","n","t","e","r","e","s","t">>
BonusFixed(r) ==
    IF r.transaction_type = OneBonusInterest
    THEN [r EXCEPT !.deposit = r.withdrawal, !.withdrawal = 0] ELSE r
WithoutBF(rows) ==
    SelectSeq(rows, LAMBDA r : ~Contains(StrUpper(r.clean_description), BalanceBF))
Iloc2(rows) == SubSeq(rows, 3, Len(rows))
df_clean(rows) == Iloc2([k \in 1..Len(WithoutBF(rows)) |-> BonusFixed(WithoutBF(rows)[k])])

\* a statement is uploaded to the card page and parsed; a table with rows is
\* displayed
CardShown(doc, y, r) ==
    /\ cc_doc' = doc
    /\ cc_year' = y
    /\ cc_method' = r.method
    /\ cc_info' = r.info
    /\ cc_transactions' = r.transactions
    /\ cc_df' = r.df
    /\ cc_clean' = IF r.df.rows = <<>> THEN <<>> ELSE df_clean(r.df.rows)
CardRun ==
    /\ cc_pc = "idle"
    /\ \E doc \in CardDocs, y \in Years :
        CardShown(doc, y, parse_credit_card_transactions(DocLines(doc), doc, y))
    /\ cc_pc' = "done"
    /\ UNCHANGED <<eaVars, meVars, ctVars, mpVars>>

CardReset ==
    /\ cc_pc = "done"
    /\ cc_pc' = "idle"
    /\ cc_doc' = <<>>
    /\ cc_year' = 0
    /\ cc_method' = "none"
    /\ cc_info' = <<>>
    /\ cc_transactions' = <<>>
    /\ cc_df' = NoTable
    /\ cc_clean' = <<>>
    /\ UNCHANGED <<eaVars, meVars, ctVars, mpVars>>

NextCard == CardRun \/ CardReset

(***************************************************************************)
(* Inputs of the citibank page: statements of a few lines                  *)
(***************************************************************************)
MaxCitiLines == 2

SHOP == <<"S","H","O","P">>
cafe == <<"c","a","f","e">>
SGD == <<"S","G","D">>
A5 == <<"5",".","0","0">>
A7 == <<"7",".","0","0">>
D01 == <<"0","1">>
JAN == <<"J","A","N">>
NA == <<"N","A">>

\* the words of one line, the last one followed by the newline
CitiLine(ws) == [k \in 1..Len(ws) |-> Word(ws[k], k = Len(ws))]

\* statements of the layouts the patterns are written for: a line for each
\* pattern, a DD/MM date whose month does not exist, a date broken over two
\* lines, and a day the month does not have
LayoutLines == {
    CitiLine(<<D01, JAN, SHOP, SGD, A5>>),
    CitiLine(<<<<"1","5","/","0","2">>, cafe, SGD, A7>>),
    CitiLine(<<<<"1","5","/","1","3">>, cafe, SGD, A7>>),
    CitiLine(<<D01, JAN, <<"1","2","3">>, cafe, A5>>),
    <<Word(D01, TRUE)>> \o CitiLine(<<JAN, <<"1","2","3">>, cafe, A7>>),
    CitiLine(<<<<"3","0">>, <<"F","E","B">>, SHOP, SGD, A5>>) }

\* statements of one layout with several merchants: a merchant, the same
\* merchant in small letters, and a merchant spelt like a missing value
MerchantLines == {
    CitiLine(<<D01, JAN, SHOP, SGD, A5>>),
    CitiLine(<<<<"0","2">>, <<"F","E","B">>, <<"s","h","o","p">>, <<"U","S","D">>, A7>>),
    CitiLine(<<<<"0","3">>, <<"M","A","R">>, NA, SGD, A5>>) }

RECURSIVE CitiTextsUpTo(_, _)
CitiTextsUpTo(lines, n) ==
    IF n = 0 THEN { <<>> }
    ELSE CitiTextsUpTo(lines, n - 1)
         \cup { t \o l : t \in CitiTextsUpTo(lines, n - 1), l \in lines }

CitiTexts ==
    (CitiTextsUpTo(LayoutLines, MaxCitiLines) \cup CitiTextsUpTo(MerchantLines, MaxCitiLines))
        \ { <<>> }

Food == <<"F","o","o","d">>
Transport == <<"T","r","a","n","s","p","o","r","t">>
\* category_options: two of the options the text input offers by default
CategoryOptions == { Food, Transport }

CtInit ==
    /\ ct_pc = "idle"
    /\ ct_text = <<>>
    /\ ct_year = 0
    /\ ct_transactions = <<>>
    /\ ct_last = 0
    /\ ct_status = "none"
    /\ ct_df = <<>>
    /\ ct_map = <<>>
    /\ ct_pending = <<>>
    /\ ct_widgets = <<>>
    /\ ct_screen = {}
    /\ ct_shown = {}
    /\ ct_assigned = 0
    /\ ct_clicks = 0

MpInit ==
    /\ mp_file = NoFile
    /\ rt_pc = "idle"
    /\ rt_before = NoFile
    /\ rt_map = <<>>
    /\ s2_pc = "idle"
    /\ s2_map = <<>>

\* a statement is put into the file uploader; the script is run again
Upload ==
    /\ ct_pc = "idle"
    /\ ct_text = <<>>
    /\ \E t \in CitiTexts, y \in Years :
        /\ ct_text' = t
        /\ ct_year' = y
    /\ ct_pc' = "start"
    /\ UNCHANGED <<ct_transactions, ct_last, ct_status, ct_df, ct_map, ct_pending,
                   ct_widgets, ct_screen, ct_shown, ct_assigned, ct_clicks,
                   eaVars, meVars, ccVars, mpVars>>

\* the number of times the user changes a select box
MaxClicks == 2

\* The user picks a value in a select box that is on the screen.  The script
\* is run again from its first line; a run in progress is stopped where it
\* stands and what it held in memory is gone.
SelectCategory ==
    /\ ct_pc \in {"idle", "loop", "save"}
    /\ ct_clicks < MaxClicks
    /\ ct_clicks' = ct_clicks + 1
    /\ \E i \in ct_screen, c \in CategoryOptions \cup { <<>> } :
        /\ c # Selected(ct_widgets, i)
        /\ ct_widgets' = [j \in DOMAIN ct_widgets \cup {i} |->
                             IF j = i THEN c ELSE ct_widgets[j]]
    /\ ct_pc' = "start"
    /\ ct_pending' = <<>>
    /\ ct_shown' = {}
    /\ UNCHANGED <<ct_text, ct_year, ct_transactions, ct_last, ct_status, ct_df, ct_map,
                   ct_screen, ct_assigned, eaVars, meVars, ccVars, mpVars>>

\* the end of a run: the select boxes the run has not shown leave the screen
\* and lose their state
RunEnds(shown) ==
    /\ ct_pc' = "idle"
    /\ ct_pending' = <<>>
    /\ ct_screen' = shown
    /\ ct_shown' = shown
    /\ ct_widgets' = [j \in DOMAIN ct_widgets \cap shown |-> ct_widgets[j]]

\* the run up to the categorisation loop, with what it has computed
Started(r, mapping, df) ==
    /\ ct_transactions' = r.transactions
    /\ ct_last' = r.last
    /\ ct_assigned' = 0
    /\ IF r.transactions = <<>>
       THEN /\ ct_status' = "no_transactions"
            /\ ct_df' = <<>>
            /\ ct_map' = <<>>
            /\ RunEnds({})
       ELSE IF \E k \in 1..Len(df) : df[k].Date = NaT
       THEN /\ ct_status' = "ValueError"
            /\ ct_df' = <<>>
            /\ ct_map' = <<>>
            /\ RunEnds({})
       ELSE IF \A k \in 1..Len(df) : df[k].Category # <<>>
       THEN /\ ct_status' = "categorized"
            /\ ct_df' = df
            /\ ct_map' = mapping
            /\ RunEnds({})
       ELSE /\ ct_status' = "manual"
            /\ ct_df' = df
            /\ ct_map' = mapping
            /\ ct_pending' = RowsToVisit(df, UncategorizedMerchants(df, 1, <<>>), 1)
            /\ ct_shown' = {}
            /\ ct_pc' = "loop"
            /\ UNCHANGED <<ct_widgets, ct_screen>>
StartedWith(r, mapping) == Started(r, mapping, CategorizedFrame(r.transactions, mapping))

\* lines 76 to 116: the text is parsed, the mapping loaded and the Category
\* column filled
ScriptStart ==
    /\ ct_pc = "start"
    /\ StartedWith(parse_transactions(ct_text, ct_year), load_mapping(mp_file))
    /\ UNCHANGED <<ct_text, ct_year, ct_clicks, eaVars, meVars, ccVars, mpVars>>

\* lines 122 to 137 for one row: its select box is shown, and a value picked
\* in it is written to the frame and to the mapping
Visit(i, selected) ==
    /\ ct_shown' = ct_shown \cup {i}
    /\ ct_screen' = ct_screen \cup {i}
    /\ ct_pending' = Tail(ct_pending)
    /\ ct_pc' = IF Tail(ct_pending) = <<>> THEN "save" ELSE "loop"
    /\ IF selected # <<>>
       THEN /\ ct_df' = SetCategory(ct_df, i, selected)
            /\ ct_map' = DictSet(ct_map, Loc(ct_df, i).Merchant, selected)
            /\ ct_assigned' = ct_assigned + 1
       ELSE UNCHANGED <<ct_df, ct_map, ct_assigned>>
CategorizeRow ==
    /\ ct_pc = "loop"
    /\ Visit(Head(ct_pending), Selected(ct_widgets, Head(ct_pending)))
    /\ UNCHANGED <<ct_text, ct_year, ct_transactions, ct_last, ct_status, ct_widgets,
                   ct_clicks, eaVars, meVars, ccVars, mpVars>>

\* line 140 and the rest of the script: the mapping is written, the table shown
SaveShown ==
    /\ ct_pc = "save"
    /\ mp_file' = save_mapping(ct_map)
    /\ ct_status' = "saved"
    /\ RunEnds(ct_shown)
    /\ UNCHANGED <<ct_text, ct_year, ct_transactions, ct_last, ct_df, ct_map, ct_assigned,
                   ct_clicks, rt_pc, rt_before, rt_map, s2_pc, s2_map, eaVars, meVars, ccVars>>

NextCiti == Upload \/ SelectCategory \/ ScriptStart \/ CategorizeRow \/ SaveShown

(***************************************************************************)
(* The same page in a second browser session: the three steps of its run   *)
(* that touch the mapping.  Nothing in mapping.py or in the page keeps the *)
(* steps of two sessions apart.                                            *)
(***************************************************************************)
\* line 100: merchant_to_category = load_mapping()
OtherLoad ==
    /\ s2_pc = "idle"
    /\ s2_map' = load_mapping(mp_file)
    /\ s2_pc' = "loaded"
    /\ UNCHANGED <<mp_file, rt_pc, rt_before, rt_map, eaVars, meVars, ccVars, ctVars>>

\* line 137: merchant_to_category[row["Merchant"]] = selected
OtherAssign ==
    /\ s2_pc = "loaded"
    /\ \E merchant \in {SHOP, cafe}, selected \in CategoryOptions :
        /\ CategoryOf(s2_map, merchant) = <<>>
        /\ s2_map' = DictSet(s2_map, merchant, selected)
    /\ s2_pc' = "assigned"
    /\ UNCHANGED <<mp_file, rt_pc, rt_before, rt_map, eaVars, meVars, ccVars, ctVars>>

\* line 140: save_mapping(merchant_to_category)
OtherSave ==
    /\ s2_pc = "assigned"
    /\ mp_file' = save_mapping(s2_map)
    /\ s2_pc' = "saved"
    /\ UNCHANGED <<s2_map, rt_pc, rt_before, rt_map, eaVars, meVars, ccVars, ctVars>>

NextSessions == NextCiti \/ OtherLoad \/ OtherAssign \/ OtherSave

(***************************************************************************)
(* Inputs of the mapping functions: mapping files of a few rows            *)
(***************************************************************************)
MaxFileRows == 2

FileMerchants == { SHOP, cafe, NA }
FileCategories == { Food, Transport, <<>> }

\* well-formed files: two cells in a row, no merchant twice
RECURSIVE FileRowsUpTo(_)
FileRowsUpTo(n) ==
    IF n = 0 THEN { <<>> }
    ELSE FileRowsUpTo(n - 1)
         \cup { Append(rows, <<m, c>>) :
                   rows \in FileRowsUpTo(n - 1), m \in FileMerchants, c \in FileCategories }
UniqueKeys(rows) == \A i, j \in 1..Len(rows) : rows[i][1] = rows[j][1] => i = j
MappingFiles ==
    { [exists |-> TRUE, header |-> MappingHeader, rows |-> rows] :
          rows \in { r \in FileRowsUpTo(MaxFileRows) : UniqueKeys(r) } }

\* a mapping file is put next to mapping.py
FileProvided ==
    /\ rt_pc = "idle"
    /\ mp_file' \in MappingFiles
    /\ rt_pc' = "provided"
    /\ UNCHANGED <<rt_before, rt_map, s2_pc, s2_map, eaVars, meVars, ccVars, ctVars>>

LoadMapping ==
    /\ rt_pc = "provided"
    /\ rt_map' = load_mapping(mp_file)
    /\ rt_before' = mp_file
    /\ rt_pc' = "loaded"
    /\ UNCHANGED <<mp_file, s2_pc, s2_map, eaVars, meVars, ccVars, ctVars>>

SaveMapping ==
    /\ rt_pc = "loaded"
    /\ mp_file' = save_mapping(rt_map)
    /\ rt_pc' = "saved"
    /\ UNCHANGED <<rt_before, rt_map, s2_pc, s2_map, eaVars, meVars, ccVars, ctVars>>

MappingReset ==
    /\ rt_pc = "saved"
    /\ mp_file' = NoFile
    /\ rt_pc' = "idle"
    /\ rt_before' = NoFile
    /\ rt_map' = <<>>
    /\ UNCHANGED <<s2_pc, s2_map, eaVars, meVars, ccVars, ctVars>>

NextMapping == FileProvided \/ LoadMapping \/ SaveMapping \/ MappingReset

Init == EaInit /\ MeInit /\ CcInit /\ CtInit /\ MpInit

SpecNorm == Init /\ [][NextNorm]_vars

SpecMonthEnd == Init /\ [][NextMonthEnd]_vars

SpecCard == Init /\ [][NextCard]_vars

SpecCategorize == Init /\ [][NextCiti]_vars

SpecMapping == Init /\ [][NextMapping]_vars

SpecSessions == Init /\ [][NextSessions]_vars

\* one page is open at a time: the month-end page or the card page
NextLedger == (cc_pc = "idle" /\ NextMonthEnd) \/ (me_pc = "idle" /\ NextCard)

SpecLedger == Init /\ [][NextLedger]_vars

\* the two parsers at work: the card page is used before a statement is given
\* to the citibank page, whose select boxes are left as they are drawn
CitiClosed == ct_pc = "idle" /\ ct_text = <<>>
NextGrammars ==
    \/ CitiClosed /\ NextCard
    \/ cc_pc = "idle" /\ (Upload \/ ScriptStart \/ CategorizeRow \/ SaveShown)

SpecGrammars == Init /\ [][NextGrammars]_vars

\* the three pages, one open at a time
NextExtract ==
    \/ cc_pc = "idle" /\ CitiClosed /\ NextMonthEnd
    \/ me_pc = "idle" /\ CitiClosed /\ NextCard
    \/ me_pc = "idle" /\ cc_pc = "idle"
          /\ (Upload \/ ScriptStart \/ CategorizeRow \/ SaveShown)

SpecExtract == Init /\ [][NextExtract]_vars

(***************************************************************************)
(* The tables shown: helpers of the properties                             *)
(***************************************************************************)
MonthEndShown == me_pc = "done" /\ me_df.status = "ok"
CardDone == cc_pc = "done"

\* the line of the text a row of the month-end table was matched on: the
\* label of a row is its position among the matched lines
MatchedLines(text) == SelectSeq(text, LAMBDA l : PatternMatch(l.fields).matched)
SourceFields(r) == MatchedLines(me_text)[r.index + 1].fields

\* the description followed by n amounts and nothing else
AmountsAfterDescription(f, n) ==
    /\ Len(f) > n
    /\ DescRun(f) = Len(f) - n
    /\ \A k \in (Len(f) - n + 1)..Len(f) : IsAmount(f[k])
\* words between the description and n amounts
AmountsAfterWords(f, n) ==
    /\ Len(f) > n + 1
    /\ DescRun(f) >= 1
    /\ \A k \in 1..(Len(f) - n) : ~IsAmount(f[k])
    /\ \A k \in (Len(f) - n + 1)..Len(f) : IsAmount(f[k])

\* the row before r in the table, when the table has one
HasPrevious(r) == r.index >= 1 /\ HasLabel(me_df.rows, r.index - 1)
Previous(r) == Loc(me_df.rows, r.index - 1)

\* C1: no row of a final ledger carries both a withdrawal and a deposit (in
\* the card table 0.0 means absent)
C1_NeverBoth ==
    /\ MonthEndShown =>
          \A k \in 1..Len(me_df.rows) :
              ~(me_df.rows[k].clean_withdrawal # NaN /\ me_df.rows[k].deposit # NaN)
    /\ CardDone =>
          \A k \in 1..Len(cc_df.rows) :
              ~(cc_df.rows[k].withdrawal \notin {NaN, 0} /\ cc_df.rows[k].deposit \notin {NaN, 0})

\* absent amounts count as zero in the balance chain
OrZero(x) == IF x = NaN THEN 0 ELSE x
WithinOneCent(a, b) == a - b <= 1 /\ b - a <= 1

\* C2: adjacent rows of a final ledger that both carry a balance satisfy
\* balance[i] = balance[i-1] + deposit[i] - withdrawal[i] within one cent; no
\* table has a column that flags a row as unreconciled
C2_BalanceChain ==
    /\ MonthEndShown =>
          \A k \in 2..Len(me_df.rows) :
              (me_df.rows[k].balance # NaN /\ me_df.rows[k - 1].balance # NaN) =>
                  WithinOneCent(me_df.rows[k].balance,
                                me_df.rows[k - 1].balance + OrZero(me_df.rows[k].deposit)
                                    - OrZero(me_df.rows[k].clean_withdrawal))
    /\ CardDone =>
          \A k \in 2..Len(cc_df.rows) :
              (cc_df.rows[k].balance # NaN /\ cc_df.rows[k - 1].balance # NaN) =>
                  WithinOneCent(cc_df.rows[k].balance,
                                cc_df.rows[k - 1].balance + OrZero(cc_df.rows[k].deposit)
                                    - OrZero(cc_df.rows[k].withdrawal))

\* the amounts of a line whose description is followed by two amounts and a balance
FirstAmount(f) == AmountValue(f[Len(f) - 2])
SecondAmount(f) == AmountValue(f[Len(f) - 1])
LastAmount(f) == AmountValue(f[Len(f)])

TwoAmountRow(r, f) ==
    /\ r.balance = LastAmount(f)
    /\ IF HasPrevious(r) /\ LastAmount(f) < Previous(r).balance
       THEN r.clean_withdrawal = SecondAmount(f) /\ r.deposit = NaN
       ELSE r.clean_withdrawal = FirstAmount(f) /\ r.deposit = SecondAmount(f)
SingleAmount(f) == AmountsAfterDescription(f, 2) \/ AmountsAfterWords(f, 2)
C6_BalanceDiff ==
    MonthEndShown =>
        \A k \in 1..Len(me_df.rows) :
            (SingleAmount(SourceFields(me_df.rows[k])) /\ HasPrevious(me_df.rows[k])) =>
                IF me_df.rows[k].balance > Previous(me_df.rows[k]).balance
                THEN /\ me_df.rows[k].deposit = SecondAmount(SourceFields(me_df.rows[k]))
                     /\ me_df.rows[k].clean_withdrawal = NaN
                ELSE /\ me_df.rows[k].clean_withdrawal
                            = SecondAmount(SourceFields(me_df.rows[k]))
                     /\ me_df.rows[k].deposit = NaN

\* C7: a record with one amount is a deposit when its merchant text or its
\* type label contains a credit keyword and a withdrawal otherwise (a record
\* with one amount has that amount as its balance)
C7_KeywordClassification ==
    CardDone =>
        \A k \in 1..Len(cc_transactions) :
            (cc_transactions[k].balance # 0
                /\ cc_transactions[k].balance
                      = cc_transactions[k].withdrawal + cc_transactions[k].deposit) =>
                IF IsCreditType(cc_transactions[k].transaction_type)
                   \/ IsCreditType(cc_transactions[k].description)
                THEN cc_transactions[k].deposit = cc_transactions[k].balance
                ELSE cc_transactions[k].withdrawal = cc_transactions[k].balance

\* what each method of the card page yields on the document shown
ByFormatting == parse_with_formatting(cc_doc, cc_year)
ByNewline == parse_with_newline_patterns(DocLines(cc_doc), cc_year)
ByLineByLine == parse_line_by_line_v2(DocLines(cc_doc), cc_year)

\* C4: among the documents the page can be given, some document is matched
\* by the line-by-line method and by no method before it
C4_OnlyLineByLine ==
    cc_pc = "idle" =>
        \E doc \in CardDocs, y \in Years :
            /\ parse_line_by_line_v2(DocLines(doc), y) # <<>>
            /\ parse_with_newline_patterns(DocLines(doc), y) = <<>>
            /\ parse_with_formatting(doc, y) = <<>>

\* what the page does instead: whenever the line-by-line method would yield a
\* record the newline-pattern method yields one, so the line-by-line method
\* never supplies the result; when all three methods yield nothing both
\* messages are shown and the result is empty
C4_LineByLineNeverSupplies ==
    CardDone =>
        /\ ByLineByLine # <<>> => ByNewline # <<>>
        /\ cc_method # "line_by_line"
        /\ cc_method = "none" =>
              /\ cc_info = <<InfoNewline, InfoLineByLine>>
              /\ cc_transactions = <<>>

\* a document the line-by-line method matches, supplied by the newline method
C4_Witness ==
    /\ CardDone
    /\ ByLineByLine # <<>>
    /\ ByFormatting = <<>>
    /\ cc_method = "newline"
    /\ cc_transactions = ByNewline

\* the citibank page has parsed the statement shown
CitiParsed == ct_status # "none"

\* the list a pattern appends when its turn comes on the text shown; the
\* local `month` is not reset between patterns, and only pattern 2 sets it
MonthLeftBefore(p) ==
    IF p = 3
    THEN AppendMatches(FindIter(2, ct_text, 1, 0), 1, ct_year, <<>>, Unbound).month
    ELSE Unbound
PatternAlone(p) ==
    AppendMatches(FindIter(p, ct_text, 1, 0), 1, ct_year, <<>>,
                  MonthLeftBefore(p)).transactions

FirstPatternWins(a1, a2, a3) ==
    /\ a1 # <<>> => ct_transactions = a1 /\ ct_last = 1
    /\ (a1 = <<>> /\ a2 # <<>>) => ct_transactions = a2 /\ ct_last = 2
    /\ (a1 = <<>> /\ a2 = <<>>) => ct_transactions = a3 /\ ct_last = 3
FirstMethodWins(m1, m2, m3) ==
    /\ m1 # <<>> => cc_transactions = m1 /\ cc_info = <<>>
    /\ (m1 = <<>> /\ m2 # <<>>) => cc_transactions = m2 /\ cc_info = <<InfoNewline>>
    /\ (m1 = <<>> /\ m2 = <<>>) =>
          cc_transactions = m3 /\ cc_info = <<InfoNewline, InfoLineByLine>>

C9_RoundTrip == rt_pc = "saved" => mp_file = rt_before

RowsOf(mapping) ==
    [k \in 1..Len(mapping) |-> <<WriteCell(mapping[k].key), WriteCell(mapping[k].value)>>]

C8_Idempotent == ea_pc = "twice" => ea_again = ea_clean

\* the merchants a mapping holds, and the merchants written in the file
KeysOf(mapping) == { mapping[k].key : k \in 1..Len(mapping) }
KeysWritten(file) == { file.rows[k][1] : k \in 1..Len(file.rows) }

\* C11: the writes of two sessions do not interleave: when the page has
\* written its assignments and the other session has written its own, the
\* file holds the merchants of both
C11_BothUpsertsKept ==
    (ct_pc = "idle" /\ ct_status = "saved" /\ ct_assigned >= 1 /\ s2_pc = "saved") =>
        \A merchant \in KeysOf(ct_map) \cup KeysOf(s2_map) :
            WriteCell(merchant) \in KeysWritten(mp_file)

\* the run of the page has ended with the mapping written
RunSaved == ct_pc = "idle" /\ ct_status = "saved"

\* C12: after a run in which the user has assigned categories, every record
\* with a category has the category a later session finds for its merchant
\* when it loads the file
C12_AssignmentKept ==
    RunSaved =>
        \A k \in 1..Len(ct_df) :
            ct_df[k].Category # <<>> =>
                CategoryOf(load_mapping(mp_file), ct_df[k].Merchant) = ct_df[k].Category

\* the run has loaded the mapping and filled the Category column, and no
\* select box has changed a category yet
JustCategorized ==
    \/ ct_pc = "idle" /\ ct_status = "categorized"
    \/ ct_pc \in {"loop", "save"} /\ ct_assigned = 0

\* C13: the lookup does not depend on letter case: a record whose merchant
\* differs from a key of the loaded mapping only in case gets the category
\* of that key
C13_CaseInsensitiveLookup ==
    JustCategorized =>
        \A k \in 1..Len(ct_df), e \in 1..Len(ct_map) :
            (StrLower(ct_map[e].key) = StrLower(ct_df[k].Merchant)
                /\ ct_map[e].key # NaNCell /\ ct_map[e].value # NaNCell) =>
                ct_df[k].Category = ct_map[e].value

\* the table a page gets when nothing was extracted
EmptyTable == [status |-> "ok", rows |-> <<>>]

\* C14: a text that no pattern and no method matches gives an empty result
\* and no exception, on each of the three pages
C14_EmptyResult ==
    /\ (me_pc = "done" /\ MatchedRows(me_text, me_year) = <<>>) => me_df = EmptyTable
    /\ (CardDone /\ ByFormatting = <<>> /\ ByNewline = <<>> /\ ByLineByLine = <<>>) =>
          cc_df = EmptyTable
    /\ (CitiParsed /\ \A pattern \in 1..PatternCount : PatternAlone(pattern) = <<>>) =>
          ct_transactions = <<>> /\ ct_status = "no_transactions"

\* the matched rows of the month-end text whose date exists
ValidRows(text, y) ==
    SelectSeq(MatchedRows(text, y), LAMBDA r : ToDatetime(r.date, y) # NaT)

\* C15: a date that does not exist costs its own row and nothing else: the
\* month-end table holds every matched row with a date that exists, and no
\* page ends with an exception
C15_MalformedDateDiscarded ==
    /\ (me_pc = "done" /\ MatchedRows(me_text, me_year) # <<>>) =>
          /\ me_df.status = "ok"
          /\ Len(me_df.rows) = Len(ValidRows(me_text, me_year))
    /\ CardDone => cc_df.status = "ok"
    /\ CitiParsed => ct_status # "ValueError"

\* the records of the winning method whose date exists
DatedRecords ==
    SelectSeq(cc_transactions,
              LAMBDA t : ToDatetimeFree(t.date.text, t.date.year) # NaT)

\* C16: every record of the winning method with a date that exists is in
\* the table that is displayed and exported
C16_NoRecordDropped == CardDone => Len(cc_clean) = Len(DatedRecords)

\* a header of the layout grammar: a bold span with more than 3 characters
\* left once the surrounding blanks are stripped
IsHeader(block) == block.bold /\ Len(Strip(block.text)) > 3
HeaderIndexes(blocks) == { k \in 1..Len(blocks) : IsHeader(blocks[k]) }
NthHeader(headers, j) ==
    CHOOSE h \in headers : Cardinality({ i \in headers : i <= h }) = j

\* the non-empty texts of the spans between header h and the next header
SegmentEnd(blocks, headers, h) ==
    IF \E i \in headers : i > h
    THEN (CHOOSE i \in headers : i > h /\ \A i2 \in headers : i2 > h => i <= i2) - 1
    ELSE Len(blocks)
SegmentTexts(blocks, h, end) ==
    SelectSeq([k \in 1..(end - h) |-> Strip(blocks[h + k].text)], LAMBDA t : t # <<>>)
RECURSIVE AmountsOf(_)
AmountsOf(texts) ==
    IF texts = <<>> THEN <<>> ELSE FindAmounts(Head(texts), 1) \o AmountsOf(Tail(texts))
LastLocation(texts) ==
    LET locations == SelectSeq(texts, IsLocation)
    IN  IF locations = <<>> THEN <<>> ELSE locations[Len(locations)]

\* the record of a header, made of the header and of its own spans only
RecordOf(type, texts, y) ==
    finalize_transaction(
        [open |-> TRUE,
         transaction_type |-> type,
         description_parts |-> SelectSeq(texts, LAMBDA t : ~IsLocation(t)),
         amounts |-> AmountsOf(texts),
         location |-> LastLocation(texts)], y)
SegmentRecord(blocks, headers, h, y) ==
    RecordOf(Strip(blocks[h].text),
             SegmentTexts(blocks, h, SegmentEnd(blocks, headers, h)), y)
OneRecordPerHeader(blocks, headers, records, y) ==
    /\ Len(records) = Cardinality(headers)
    /\ \A j \in 1..Len(records) :
          records[j] = SegmentRecord(blocks, headers, NthHeader(headers, j), y)
    /\ (headers # {}) => cc_method = "formatting" /\ cc_transactions = records

\* C17: the layout grammar returns one record for each header span, in the
\* order of the headers; the record of a header is made of the spans up to
\* the next header or the end of the input and of nothing else, so a span
\* before the first header is in no record; the page takes these records
\* whenever there is a header
C17_OneRecordPerHeader ==
    CardDone => OneRecordPerHeader(cc_doc, HeaderIndexes(cc_doc), ByFormatting, cc_year)

\* a document with a span before the first header, an amount under the
\* first header and a second header
C17_TwoHeaders ==
    /\ CardDone
    /\ cc_method = "formatting"
    /\ Len(cc_transactions) = 2
    /\ cc_transactions[1].withdrawal # 0
    /\ Len(cc_doc) > 2

\* the records of the structural grammar for the first k lines of the
\* document; there is an open record after line k exactly when it is not empty
NewlineUpTo(k) ==
    parse_with_newline_patterns(SubSeq(DocLines(cc_doc), 1, k), cc_year)
LocationKept(before, after, line) ==
    /\ Len(after) = Len(before)
    /\ after[Len(after)] = [before[Len(before)] EXCEPT !.info = line]

\* C18: in the structural grammar a line with a location keyword that comes
\* while a record is open becomes the info of that record: the number of
\* records, the description and the amounts stay as they were before the line
C18_LocationIsInfo ==
    CardDone =>
        \A k \in 1..Len(cc_doc) :
            (IsLocation(Strip(cc_doc[k].text)) /\ NewlineUpTo(k - 1) # <<>>) =>
                LocationKept(NewlineUpTo(k - 1), NewlineUpTo(k), Strip(cc_doc[k].text))

\* every entry of the mapping loaded with a category is in the mapping held
\* now, with the same category
EntriesKept(loaded, held) ==
    \A e \in 1..Len(loaded) :
        loaded[e].value # NaNCell =>
            DictHas(held, loaded[e].key) /\ DictGet(held, loaded[e].key) = loaded[e].value

\* C19: from the load to the write of a run, whatever the select boxes hold,
\* the mapping the run holds and writes keeps every entry it loaded with a
\* category; the file is the one the run has loaded until the run writes it
C19_LoadedEntriesKept ==
    ct_pc \in {"loop", "save"} => EntriesKept(load_mapping(mp_file), ct_map)

\* a run about to write a mapping that it loaded with an entry and to which
\* a select box has added another
C19_EntryAdded ==
    /\ ct_pc = "save"
    /\ ct_assigned >= 1
    /\ \E e \in 1..Len(load_mapping(mp_file)) : load_mapping(mp_file)[e].value # NaNCell
    /\ Len(ct_map) > Len(load_mapping(mp_file))

====
